---------------------------- MODULE Spec2Model ----------------------------
(***************************************************************************)
(* A model of fury/testing.py: the captured_output() context manager, the  *)
(* assert_operator family, assert_arrays_equal and setup_test.             *)
(*                                                                         *)
(* Five specifications share the module:                                   *)
(*   SpecCapture  one thread running (possibly nested) capture scopes      *)
(*   SpecThreads  two threads running capture scopes concurrently          *)
(*   SpecAssert   calls of assert_operator and of its partial bindings     *)
(*   SpecArrays   calls of assert_arrays_equal                             *)
(*   SpecSetup    repeated calls of setup_test                             *)
(***************************************************************************)
EXTENDS Integers, Sequences, FiniteSets, TLC

VARIABLES
    \* ---- captured_output -------------------------------------------------
    active,      \* the threads that run
    sys_stdout,  \* sys.stdout: the object currently installed (a heap index)
    sys_stderr,  \* sys.stderr
    heap,        \* text held by each stream object; 1, 2 are the real streams
    pc,          \* per thread: where it is
    stack,       \* per thread: the generator frames of its open scopes
    exc,         \* per thread: the error its code is observing right now
    last,        \* per thread: the frame of the scope it exited most recently
    log,         \* scope entries and exits, in the order they happened
    quota,       \* per thread: the scopes it may still enter
    wleft,       \* number of writes the run may still perform
    \* ---- assert_operator and bindings ------------------------------------
    call,        \* the last assertion call made
    outcome,     \* what that call did
    \* ---- assert_arrays_equal ---------------------------------------------
    arrays1, arrays2, aresult,
    \* ---- setup_test ------------------------------------------------------
    np_version, scipy_version, printoptions, filters, ncalls, config1

capVars    == <<active, sys_stdout, sys_stderr, heap, pc, stack, exc, last, log,
               quota, wleft>>
assertVars == <<call, outcome>>
arrVars    == <<arrays1, arrays2, aresult>>
setupVars  == <<np_version, scipy_version, printoptions, filters, ncalls, config1>>
vars       == <<capVars, assertVars, arrVars, setupVars>>
notCapture == <<assertVars, arrVars, setupVars>>

(***************************************************************************)
(* Bounds                                                                  *)
(***************************************************************************)
MaxScopes == 2      \* capture scopes entered in one run
MaxDepth  == 2      \* nesting depth of capture scopes in one thread
MaxWrites == 2      \* writes performed in one run

Threads == {"A", "B"}
Texts   == {"a", "b"}       \* the texts a body writes
Errors  == {"E1", "E2"}     \* the errors a body raises
NoErr   == "none"

(***************************************************************************)
(* captured_output                                                         *)
(***************************************************************************)
RealOut == 1        \* the stream sys.stdout names before any scope
RealErr == 2        \* the stream sys.stderr names before any scope

NoFrame ==
    [new_out |-> 0, new_err |-> 0, old_out |-> 0, old_err |-> 0,
     out |-> 0, err |-> 0, pending |-> NoErr,
     pre_out |-> 0, pre_err |-> 0, raised |-> NoErr,
     wout |-> "", werr |-> "", real_out |-> "", real_err |-> ""]

Depth(t) == Len(stack[t])
Top(t)   == stack[t][Len(stack[t])]
SetTop(t, f) == [stack EXCEPT ![t] = [@ EXCEPT ![Len(@)] = f]]

\* line 29: new_out, new_err = StringIO(), StringIO(); the other fields of the
\* frame record what was installed and what the real streams held at the call.
NewFrame ==
    [NoFrame EXCEPT !.new_out = Len(heap) + 1, !.new_err = Len(heap) + 2,
                    !.pre_out = sys_stdout, !.pre_err = sys_stderr,
                    !.real_out = heap[RealOut], !.real_err = heap[RealErr]]

\* line 30: the value saved in old_out / old_err is the stream installed now
OldOut(cur) == cur
OldErr(cur) == cur

\* line 32: the objects installed as sys.stdout / sys.stderr
InstalledOut(f) == f.new_out
InstalledErr_Same(f) == f.new_out
InstalledErr(f) == f.new_err

\* lines 31, 34: try/finally: the restore of line 35 runs however the body ended
ExitPc_NoFinally(f) == IF f.pending = NoErr THEN "l35_out" ELSE "end"
ExitPc(f) == "l35_out"

\* line 35: the objects put back
RestoredOut_Real(f) == RealOut
RestoredOut(f) == f.old_out
RestoredErr(f) == f.old_err

\* lines 31-35 have no except clause: the error thrown into the generator at
\* the yield leaves it again, and the with statement re-raises it.
Delivered_Swallow(f) == NoErr
Delivered(f) == f.pending

\* the call of captured_output(): line 29
Enter(t) ==
    /\ pc[t] = "body"
    /\ Depth(t) < MaxDepth
    /\ quota[t] > 0
    /\ heap' = heap \o <<"", "">>
    /\ stack' = [stack EXCEPT ![t] = Append(@, NewFrame)]
    /\ pc' = [pc EXCEPT ![t] = "l30_out"]
    /\ log' = Append(log, <<t, "enter">>)
    /\ quota' = [quota EXCEPT ![t] = @ - 1]
    /\ UNCHANGED <<active, sys_stdout, sys_stderr, exc, last, wleft, notCapture>>

\* line 30, first load: sys.stdout
L30_out(t) ==
    /\ pc[t] = "l30_out"
    /\ stack' = SetTop(t, [Top(t) EXCEPT !.old_out = OldOut(sys_stdout)])
    /\ pc' = [pc EXCEPT ![t] = "l30_err"]
    /\ UNCHANGED <<active, sys_stdout, sys_stderr, heap, exc, last, log, quota, wleft, notCapture>>

\* line 30, second load: sys.stderr
L30_err(t) ==
    /\ pc[t] = "l30_err"
    /\ stack' = SetTop(t, [Top(t) EXCEPT !.old_err = OldErr(sys_stderr)])
    /\ pc' = [pc EXCEPT ![t] = "l32_out"]
    /\ UNCHANGED <<active, sys_stdout, sys_stderr, heap, exc, last, log, quota, wleft, notCapture>>

\* line 32, first store: sys.stdout = new_out
L32_out(t) ==
    /\ pc[t] = "l32_out"
    /\ sys_stdout' = InstalledOut(Top(t))
    /\ pc' = [pc EXCEPT ![t] = "l32_err"]
    /\ UNCHANGED <<active, sys_stderr, heap, stack, exc, last, log, quota, wleft, notCapture>>

\* line 32, second store: sys.stderr = new_err
L32_err(t) ==
    /\ pc[t] = "l32_err"
    /\ sys_stderr' = InstalledErr(Top(t))
    /\ pc' = [pc EXCEPT ![t] = "l33_out"]
    /\ UNCHANGED <<active, sys_stdout, heap, stack, exc, last, log, quota, wleft, notCapture>>

\* line 33: yield sys.stdout, sys.stderr: both are loaded again
L33_out(t) ==
    /\ pc[t] = "l33_out"
    /\ stack' = SetTop(t, [Top(t) EXCEPT !.out = sys_stdout])
    /\ pc' = [pc EXCEPT ![t] = "l33_err"]
    /\ UNCHANGED <<active, sys_stdout, sys_stderr, heap, exc, last, log, quota, wleft, notCapture>>

L33_err(t) ==
    /\ pc[t] = "l33_err"
    /\ stack' = SetTop(t, [Top(t) EXCEPT !.err = sys_stderr])
    /\ pc' = [pc EXCEPT ![t] = "body"]
    /\ log' = Append(log, <<t, "entered">>)
    /\ UNCHANGED <<active, sys_stdout, sys_stderr, heap, exc, last, quota, wleft, notCapture>>

\* The code running at the yield (or outside every scope) writes a text to
\* sys.stdout or to sys.stderr: it lands in whatever object is installed.
Write(t, stream, text) ==
    /\ pc[t] = "body"
    /\ wleft > 0
    /\ LET target == IF stream = "stdout" THEN sys_stdout ELSE sys_stderr
       IN  heap' = [heap EXCEPT ![target] = @ \o text]
    /\ stack' = IF Depth(t) = 0 THEN stack
                ELSE IF stream = "stdout"
                     THEN SetTop(t, [Top(t) EXCEPT !.wout = @ \o text])
                     ELSE SetTop(t, [Top(t) EXCEPT !.werr = @ \o text])
    /\ wleft' = wleft - 1
    /\ UNCHANGED <<active, sys_stdout, sys_stderr, pc, exc, last, log, quota, notCapture>>

\* The body ends: the generator is resumed (f.pending = NoErr) or the error
\* is thrown into it at the yield.
Leave(t, e) ==
    LET f == [Top(t) EXCEPT !.pending = e, !.raised = e]
    IN  /\ stack' = SetTop(t, f)
        /\ pc' = [pc EXCEPT ![t] = ExitPc(f)]
        /\ log' = Append(log, <<t, "exit">>)

\* the body returns normally
Return(t) ==
    /\ pc[t] = "body"
    /\ Depth(t) > 0
    /\ Leave(t, NoErr)
    /\ UNCHANGED <<active, sys_stdout, sys_stderr, heap, exc, last, quota, wleft, notCapture>>

\* the body raises the error e
Raise(t, e) ==
    /\ pc[t] = "body"
    /\ Depth(t) > 0
    /\ Leave(t, e)
    /\ UNCHANGED <<active, sys_stdout, sys_stderr, heap, exc, last, quota, wleft, notCapture>>

\* line 35, first store: sys.stdout = old_out
L35_out(t) ==
    /\ pc[t] = "l35_out"
    /\ sys_stdout' = RestoredOut(Top(t))
    /\ pc' = [pc EXCEPT ![t] = "l35_err"]
    /\ UNCHANGED <<active, sys_stderr, heap, stack, exc, last, log, quota, wleft, notCapture>>

\* line 35, second store: sys.stderr = old_err
L35_err(t) ==
    /\ pc[t] = "l35_err"
    /\ sys_stderr' = RestoredErr(Top(t))
    /\ pc' = [pc EXCEPT ![t] = "end"]
    /\ UNCHANGED <<active, sys_stdout, heap, stack, exc, last, log, quota, wleft, notCapture>>

\* The generator ends and the with statement is left: the code around it goes
\* on, or observes the error the generator let through.
GenEnd(t) ==
    /\ pc[t] = "end"
    /\ last' = [last EXCEPT ![t] = Top(t)]
    /\ stack' = [stack EXCEPT ![t] = SubSeq(@, 1, Len(@) - 1)]
    /\ exc' = [exc EXCEPT ![t] = Delivered(Top(t))]
    /\ pc' = [pc EXCEPT ![t] = IF Delivered(Top(t)) = NoErr THEN "after" ELSE "except"]
    /\ log' = Append(log, <<t, "exited">>)
    /\ UNCHANGED <<active, sys_stdout, sys_stderr, heap, quota, wleft, notCapture>>

\* the code after the with statement goes on
Continue(t) ==
    /\ pc[t] = "after"
    /\ pc' = [pc EXCEPT ![t] = "body"]
    /\ UNCHANGED <<active, sys_stdout, sys_stderr, heap, stack, exc, last, log, quota, wleft, notCapture>>

\* the code around the with statement catches the error and goes on
Handle(t) ==
    /\ pc[t] = "except"
    /\ exc' = [exc EXCEPT ![t] = NoErr]
    /\ pc' = [pc EXCEPT ![t] = "body"]
    /\ UNCHANGED <<active, sys_stdout, sys_stderr, heap, stack, last, log, quota, wleft, notCapture>>

\* the with statement was itself in the body of an enclosing scope, which
\* does not catch the error: it leaves that body too
Unwind(t) ==
    /\ pc[t] = "except"
    /\ Depth(t) > 0
    /\ Leave(t, exc[t])
    /\ exc' = [exc EXCEPT ![t] = NoErr]
    /\ UNCHANGED <<active, sys_stdout, sys_stderr, heap, last, quota, wleft, notCapture>>

CaptureInit(T, scopes, writes) ==
    /\ active = T
    /\ sys_stdout = RealOut
    /\ sys_stderr = RealErr
    /\ heap = <<"", "">>
    /\ pc = [t \in Threads |-> "body"]
    /\ stack = [t \in Threads |-> <<>>]
    /\ exc = [t \in Threads |-> NoErr]
    /\ last = [t \in Threads |-> NoFrame]
    /\ log = <<>>
    /\ quota = [t \in Threads |-> scopes]
    /\ wleft = writes

CaptureIdle == CaptureInit({}, 0, 0)

NoCall == [fn |-> "none", args |-> <<>>, msg |-> <<>>, op |-> "eq"]
AssertIdle ==
    /\ call = NoCall
    /\ outcome = [status |-> "ok", message |-> ""]

ArraysIdle ==
    /\ arrays1 = <<>>
    /\ arrays2 = <<>>
    /\ aresult = <<>>

SetupIdle ==
    /\ np_version = <<>>
    /\ scipy_version = <<>>
    /\ printoptions = <<>>
    /\ filters = <<>>
    /\ ncalls = 0
    /\ config1 = <<>>

\* One thread: scopes may nest and follow each other.
InitCapture ==
    /\ CaptureInit({"A"}, MaxScopes, MaxWrites)
    /\ AssertIdle /\ ArraysIdle /\ SetupIdle

\* Two threads, each running one scope whose body returns or raises.
InitThreads ==
    /\ CaptureInit(Threads, 1, 0)
    /\ AssertIdle /\ ArraysIdle /\ SetupIdle

NextCapture ==
    \/ \E t \in active : Enter(t)
    \/ \E t \in active : L30_out(t)
    \/ \E t \in active : L30_err(t)
    \/ \E t \in active : L32_out(t)
    \/ \E t \in active : L32_err(t)
    \/ \E t \in active : L33_out(t)
    \/ \E t \in active : L33_err(t)
    \/ \E t \in active, s \in {"stdout", "stderr"}, x \in Texts : Write(t, s, x)
    \/ \E t \in active : Return(t)
    \/ \E t \in active, e \in Errors : Raise(t, e)
    \/ \E t \in active : L35_out(t)
    \/ \E t \in active : L35_err(t)
    \/ \E t \in active : GenEnd(t)
    \/ \E t \in active : Continue(t)
    \/ \E t \in active : Handle(t)
    \/ \E t \in active : Unwind(t)

\* With one scope per thread no scope encloses another, so Unwind has no case;
\* one error is enough to tell a raising body from a returning one.
NextThreads ==
    \/ \E t \in active : Enter(t)
    \/ \E t \in active : L30_out(t)
    \/ \E t \in active : L30_err(t)
    \/ \E t \in active : L32_out(t)
    \/ \E t \in active : L32_err(t)
    \/ \E t \in active : L33_out(t)
    \/ \E t \in active : L33_err(t)
    \/ \E t \in active : Return(t)
    \/ \E t \in active : Raise(t, "E1")
    \/ \E t \in active : L35_out(t)
    \/ \E t \in active : L35_err(t)
    \/ \E t \in active : GenEnd(t)
    \/ \E t \in active : Continue(t)
    \/ \E t \in active : Handle(t)

SpecCapture == InitCapture /\ [][NextCapture]_vars
SpecThreads == InitThreads /\ [][NextThreads]_vars

(***************************************************************************)
(* assert_operator and its bindings                                        *)
(***************************************************************************)
MaxInt == 11        \* the integer arguments are -1 .. MaxInt

\* Python values: integers and the two booleans (bool is a subclass of int:
\* True compares as 1 and False as 0, but they print as True and False).
IntVal(n) == [t |-> "int", v |-> n]
True  == [t |-> "bool", v |-> 1]
False == [t |-> "bool", v |-> 0]
Values == {IntVal(n) : n \in (-1) .. MaxInt} \cup {True, False}

\* str(value)
Digit == <<"0", "1", "2", "3", "4", "5", "6", "7", "8", "9">>
RECURSIVE NatStr(_)
NatStr(n) == IF n < 10 THEN Digit[n + 1]
             ELSE NatStr(n \div 10) \o Digit[(n % 10) + 1]
Str(x) == IF x.t = "bool" THEN (IF x.v = 1 THEN "True" ELSE "False")
          ELSE IF x.v < 0 THEN "-" \o NatStr(0 - x.v)
          ELSE NatStr(x.v)

\* the functions of the operator module the file uses (lines 38-56)
Operators == {"eq", "ne", "lt", "le", "gt", "ge"}
ApplyOp(op, a, b) ==
    CASE op = "eq" -> a.v = b.v
      [] op = "ne" -> a.v # b.v
      [] op = "lt" -> a.v < b.v
      [] op = "le" -> a.v <= b.v
      [] op = "gt" -> a.v > b.v
      [] op = "ge" -> a.v >= b.v

\* A message template is a sequence of literal texts and replacement fields
\* {i}; str.format replaces field i by its i-th positional argument and
\* raises IndexError when there is none.
Lit(s)   == [kind |-> "lit", text |-> s, index |-> 0]
Field(i) == [kind |-> "field", text |-> "", index |-> i]
FormatOK(tpl, args) ==
    \A k \in 1 .. Len(tpl) : tpl[k].kind = "field" => tpl[k].index < Len(args)
RECURSIVE Format(_, _)
Format(tpl, args) ==
    IF tpl = <<>> THEN ""
    ELSE (IF Head(tpl).kind = "lit" THEN Head(tpl).text
          ELSE args[Head(tpl).index + 1]) \o Format(Tail(tpl), args)

\* the templates of lines 38-55, and two a caller may pass
T_empty     == <<>>
T_ge        == <<Field(0), Lit(" >= "), Field(1)>>
T_gt        == <<Field(0), Lit(" > "), Field(1)>>
T_le        == <<Field(0), Lit(" =< "), Field(1)>>
T_lt        == <<Field(0), Lit(" < "), Field(1)>>
T_not_true  == <<Lit("False is not true")>>
T_not_false == <<Lit("True is not false")>>
T_reversed  == <<Field(1), Lit(" vs "), Field(0)>>
T_third     == <<Lit("got "), Field(2)>>
Templates == {T_empty, T_ge, T_gt, T_le, T_lt, T_not_true, T_not_false,
              T_reversed, T_third}

Passed == [status |-> "ok", message |-> ""]
Failed(kind, text) == [status |-> kind, message |-> text]

\* lines 38-41, with a slip a maintainer could make: the operands exchanged
assert_operator_Exchanged(value1, value2, msg, op) ==
    IF ~ApplyOp(op, value2, value1)
    THEN IF FormatOK(msg, <<Str(value2), Str(value1)>>)
         THEN Failed("AssertionError", Format(msg, <<Str(value2), Str(value1)>>))
         ELSE Failed("IndexError", "")
    ELSE Passed

\* lines 38-41, with the format arguments in the order of the parameters
assert_operator_Natural(value1, value2, msg, op) ==
    IF ~ApplyOp(op, value1, value2)
    THEN IF FormatOK(msg, <<Str(value1), Str(value2)>>)
         THEN Failed("AssertionError", Format(msg, <<Str(value1), Str(value2)>>))
         ELSE Failed("IndexError", "")
    ELSE Passed

\* lines 38-41
assert_operator(value1, value2, msg, op) ==
    IF ~ApplyOp(op, value1, value2)
    THEN IF FormatOK(msg, <<Str(value2), Str(value1)>>)
         THEN Failed("AssertionError", Format(msg, <<Str(value2), Str(value1)>>))
         ELSE Failed("IndexError", "")
    ELSE Passed

\* A call assert_operator(*args, **kw): positional arguments fill the
\* parameters in order, keywords by name, msg and op have defaults (line 38);
\* a parameter given twice or a missing value is a TypeError.
Params == <<"value1", "value2", "msg", "op">>
CallAssertOperator(args, kw) ==
    LET Given(i) == i <= Len(args) \/ Params[i] \in DOMAIN kw
        Arg(i, default) == IF i <= Len(args) THEN args[i]
                           ELSE IF Params[i] \in DOMAIN kw THEN kw[Params[i]]
                           ELSE default
    IN  IF \/ Len(args) > Len(Params)
           \/ \E i \in 1 .. Len(args) : Params[i] \in DOMAIN kw
           \/ ~Given(1)
           \/ ~Given(2)
        THEN Failed("TypeError", "")
        ELSE assert_operator(Arg(1, False), Arg(2, False), Arg(3, T_empty), Arg(4, "eq"))

\* lines 44-56 with one operator mistaken: assert_less_equal bound to lt
Keywords_Strict(name) ==
    CASE name = "assert_greater_equal" -> [op |-> "ge", msg |-> T_ge]
      [] name = "assert_greater"       -> [op |-> "gt", msg |-> T_gt]
      [] name = "assert_less_equal"    -> [op |-> "lt", msg |-> T_le]
      [] name = "assert_less"          -> [op |-> "lt", msg |-> T_lt]
      [] name = "assert_true"          -> [value2 |-> True, op |-> "eq", msg |-> T_not_true]
      [] name = "assert_false"         -> [value2 |-> False, op |-> "eq", msg |-> T_not_false]
      [] name = "assert_not_equal"     -> [op |-> "ne"]

\* lines 44-56: the keywords each partial() binds
Keywords(name) ==
    CASE name = "assert_greater_equal" -> [op |-> "ge", msg |-> T_ge]
      [] name = "assert_greater"       -> [op |-> "gt", msg |-> T_gt]
      [] name = "assert_less_equal"    -> [op |-> "le", msg |-> T_le]
      [] name = "assert_less"          -> [op |-> "lt", msg |-> T_lt]
      [] name = "assert_true"          -> [value2 |-> True, op |-> "eq", msg |-> T_not_true]
      [] name = "assert_false"         -> [value2 |-> False, op |-> "eq", msg |-> T_not_false]
      [] name = "assert_not_equal"     -> [op |-> "ne"]

Bindings == {"assert_greater_equal", "assert_greater", "assert_less_equal",
             "assert_less", "assert_true", "assert_false", "assert_not_equal"}

\* functools.partial: the call's own keywords take precedence over the bound
\* ones, and the positional arguments are passed on as they are
PartialCall(name, args, kwargs) == CallAssertOperator(args, kwargs @@ Keywords(name))

NoKeywords == [x \in {} |-> 0]

\* Each run makes one assertion call (the assertions keep no state).
\* a test calls assert_operator(a, b, msg, op)
CallGeneric(a, b, msg, op) ==
    /\ call.fn = "none"
    /\ call' = [fn |-> "assert_operator", args |-> <<a, b>>, msg |-> msg, op |-> op]
    /\ outcome' = CallAssertOperator(<<a, b, msg, op>>, NoKeywords)
    /\ UNCHANGED <<capVars, arrVars, setupVars>>

\* a test calls assert_operator(a, b): equality, empty message
CallDefault(a, b) ==
    /\ call.fn = "none"
    /\ call' = [fn |-> "assert_operator", args |-> <<a, b>>, msg |-> T_empty, op |-> "eq"]
    /\ outcome' = CallAssertOperator(<<a, b>>, NoKeywords)
    /\ UNCHANGED <<capVars, arrVars, setupVars>>

\* a test calls one of the bindings with one or two positional arguments
CallBinding(name, args) ==
    /\ call.fn = "none"
    /\ call' = [fn |-> name, args |-> args, msg |-> T_empty, op |-> "bound"]
    /\ outcome' = PartialCall(name, args, NoKeywords)
    /\ UNCHANGED <<capVars, arrVars, setupVars>>

InitAssert ==
    /\ CaptureIdle /\ ArraysIdle /\ SetupIdle
    /\ call = NoCall
    /\ outcome = Passed

NextAssert ==
    \/ \E a, b \in Values, msg \in Templates, op \in Operators : CallGeneric(a, b, msg, op)
    \/ \E a, b \in Values : CallDefault(a, b)
    \/ \E name \in Bindings, a, b \in Values : CallBinding(name, <<a, b>>)
    \/ \E name \in Bindings, a \in Values : CallBinding(name, <<a>>)

SpecAssert == InitAssert /\ [][NextAssert]_vars

(***************************************************************************)
(* assert_arrays_equal                                                     *)
(***************************************************************************)
MaxArrLen == 1      \* length of one array
MaxSeqLen == 2      \* number of arrays in one sequence

SeqsUpTo(S, n) == UNION {[1 .. k -> S] : k \in 0 .. n}
Arrays    == SeqsUpTo({0, 1}, MaxArrLen)        \* one-dimensional arrays
ArraySeqs == SeqsUpTo(Arrays, MaxSeqLen)

Min(a, b) == IF a <= b THEN a ELSE b

\* numpy.testing.assert_array_equal (lines 9, 61) on one-dimensional arrays:
\* it raises AssertionError unless the shapes and all the elements agree
ArrayEqual(x, y) ==
    /\ Len(x) = Len(y)
    /\ \A k \in 1 .. Len(x) : x[k] = y[k]

\* line 60: zip stops when either sequence is exhausted
Zip(a, b) == [k \in 1 .. Min(Len(a), Len(b)) |-> <<a[k], b[k]>>]

AllEqual == [status |-> "ok", pos |-> 0 - 1, x |-> <<>>, y |-> <<>>]
\* the error of assert_array_equal reports the two arrays it was given; pos
\* is the (0-based) iteration of the loop that raised it
Mismatch(k, x, y) == [status |-> "AssertionError", pos |-> k - 1, x |-> x, y |-> y]

\* lines 60-61: the loop, from its k-th iteration on
RECURSIVE Loop(_, _)
Loop(pairs, k) ==
    IF k > Len(pairs) THEN AllEqual
    ELSE IF ~ArrayEqual(pairs[k][1], pairs[k][2])
         THEN Mismatch(k, pairs[k][1], pairs[k][2])
         ELSE Loop(pairs, k + 1)

\* lines 59-61 with a length check added: sequences of different lengths fail
assert_arrays_equal_Strict(a1, a2) ==
    IF Len(a1) # Len(a2)
    THEN [status |-> "AssertionError", pos |-> Min(Len(a1), Len(a2)), x |-> <<>>, y |-> <<>>]
    ELSE Loop(Zip(a1, a2), 1)

\* lines 59-61 with the loop left after its first iteration
assert_arrays_equal_First(a1, a2) ==
    LET pairs == Zip(a1, a2)
    IN  IF pairs = <<>> \/ ArrayEqual(pairs[1][1], pairs[1][2])
        THEN AllEqual
        ELSE Mismatch(1, pairs[1][1], pairs[1][2])

\* lines 59-61
assert_arrays_equal(a1, a2) == Loop(Zip(a1, a2), 1)

NotCalled == [status |-> "not called", pos |-> 0 - 1, x |-> <<>>, y |-> <<>>]

\* a test calls assert_arrays_equal(arrays1, arrays2)
CallArrays ==
    /\ aresult = NotCalled
    /\ aresult' = assert_arrays_equal(arrays1, arrays2)
    /\ UNCHANGED <<arrays1, arrays2, capVars, assertVars, setupVars>>

InitArrays ==
    /\ CaptureIdle /\ AssertIdle /\ SetupIdle
    /\ arrays1 \in ArraySeqs
    /\ arrays2 \in ArraySeqs
    /\ aresult = NotCalled

NextArrays == CallArrays

SpecArrays == InitArrays /\ [][NextArrays]_vars

(***************************************************************************)
(* setup_test                                                              *)
(***************************************************************************)
MaxCalls == 3       \* calls of setup_test in one run

\* version strings, character by character
V_1_9    == <<"1", ".", "9">>
V_1_13   == <<"1", ".", "1", "3">>
V_1_14   == <<"1", ".", "1", "4">>
V_1_14_5 == <<"1", ".", "1", "4", ".", "5">>
V_1_15   == <<"1", ".", "1", "5">>
V_1_16_2 == <<"1", ".", "1", "6", ".", "2">>
V_2_0    == <<"2", ".", "0">>
V_0_19_1 == <<"0", ".", "1", "9", ".", "1">>
V_1_1    == <<"1", ".", "1">>
V_1_1_0  == <<"1", ".", "1", ".", "0">>
V_1_1_1  == <<"1", ".", "1", ".", "1">>
V_1_10_0 == <<"1", ".", "1", "0", ".", "0">>
NumpyVersions == {V_1_9, V_1_13, V_1_14, V_1_14_5, V_1_15, V_1_16_2, V_2_0}
ScipyVersions == {V_0_19_1, V_1_1, V_1_1_0, V_1_1_1, V_1_10_0}

DigitVal(c) == CHOOSE d \in 0 .. 9 : Digit[d + 1] = c

\* distutils.version.LooseVersion (lines 12, 74, 81, 82) on strings of digits
\* and dots: the components between the dots, as integers.  num is the
\* number being read, -1 when none is.
RECURSIVE ParseVersion(_, _, _)
ParseVersion(s, num, comps) ==
    IF s = <<>> THEN (IF num < 0 THEN comps ELSE Append(comps, num))
    ELSE IF Head(s) = "."
         THEN ParseVersion(Tail(s), 0 - 1, IF num < 0 THEN comps ELSE Append(comps, num))
         ELSE ParseVersion(Tail(s), (IF num < 0 THEN 0 ELSE num) * 10 + DigitVal(Head(s)), comps)
LooseVersion(s) == ParseVersion(s, 0 - 1, <<>>)

\* the comparison of two component lists: the first difference decides, and
\* a proper prefix is the smaller
RECURSIVE Cmp(_, _)
Cmp(a, b) ==
    IF a = <<>> THEN (IF b = <<>> THEN 0 ELSE 0 - 1)
    ELSE IF b = <<>> THEN 1
    ELSE IF Head(a) < Head(b) THEN 0 - 1
    ELSE IF Head(a) > Head(b) THEN 1
    ELSE Cmp(Tail(a), Tail(b))
VersionGE(a, b) == Cmp(LooseVersion(a), LooseVersion(b)) >= 0
VersionLE(a, b) == Cmp(LooseVersion(a), LooseVersion(b)) <= 0

\* line 75: np.set_printoptions(legacy='1.13') sets the legacy mode and
\* leaves the options it was not given
SetLegacy(opts) == [opts EXCEPT !.legacy = "1.13"]

\* entries of warnings.filters: action, category, lineno (no message, no module)
F_default == <<"default", "Warning", 0>>
F_ignore  == <<"ignore", "DeprecationWarning", 0>>
F_error   == <<"error", "Warning", 0>>
FilterLists == {<<>>, <<F_ignore>>, <<F_default, F_ignore>>, <<F_ignore, F_default>>,
                <<F_error, F_default>>, <<F_default, F_ignore, F_default>>}

\* list.remove(item): the first occurrence goes
RECURSIVE RemoveFirst(_, _)
RemoveFirst(list, item) ==
    IF list = <<>> THEN <<>>
    ELSE IF Head(list) = item THEN Tail(list)
    ELSE <<Head(list)>> \o RemoveFirst(Tail(list), item)

\* line 84 as a plain insert at the front, the duplicate entry staying
simplefilter_Insert(list, action) == <<<<action, "Warning", 0>>>> \o list

\* line 84: warnings.simplefilter(action): a duplicate of the entry is
\* removed and the entry is inserted at the front
simplefilter(list, action) ==
    <<<<action, "Warning", 0>>>> \o RemoveFirst(list, <<action, "Warning", 0>>)

\* lines 64-84
setup_test ==
    /\ ncalls < MaxCalls
    /\ printoptions' = IF VersionGE(np_version, V_1_14)
                       THEN SetLegacy(printoptions) ELSE printoptions
    /\ filters' = IF VersionGE(np_version, V_1_15) /\ VersionLE(scipy_version, V_1_1_0)
                  THEN simplefilter(filters, "default") ELSE filters
    /\ ncalls' = ncalls + 1
    /\ config1' = IF ncalls = 0 THEN <<printoptions', filters'>> ELSE config1
    /\ UNCHANGED <<np_version, scipy_version, capVars, assertVars, arrVars>>

InitSetup ==
    /\ CaptureIdle /\ AssertIdle /\ ArraysIdle
    /\ np_version \in NumpyVersions
    /\ scipy_version \in ScipyVersions
    /\ printoptions \in [legacy : {"False", "1.13"}, precision : {8}]
    /\ filters \in FilterLists
    /\ ncalls = 0
    /\ config1 = <<>>

NextSetup == setup_test

SpecSetup == InitSetup /\ [][NextSetup]_vars

(***************************************************************************)
(* Claims about captured_output                                            *)
(***************************************************************************)
\* thread t has just left a scope: its frame is last[t], nothing ran since
JustExited(t) == t \in active /\ pc[t] \in {"after", "except"}

\* C1: once a scope has exited, whether its body returned or raised,
\* sys.stdout and sys.stderr are the very objects that were installed
\* immediately before the scope was entered.
C1_Restored ==
    \A t \in Threads : JustExited(t) =>
        /\ sys_stdout = last[t].pre_out
        /\ sys_stderr = last[t].pre_err

\* an inner scope, entered while an outer buffer was installed, left by an error
C1_Witness ==
    \E t \in Threads :
        /\ pc[t] = "except"
        /\ last[t].pre_out \notin {0, RealOut}
        /\ sys_stdout = last[t].pre_out
        /\ sys_stderr = last[t].pre_err

\* C3: when a scope has exited, the out buffer it yielded holds exactly the
\* texts its body wrote to standard output, in order, the err buffer those
\* written to standard error, and the real streams hold what they held when
\* the scope was entered.
C3_Buffers ==
    \A t \in Threads : JustExited(t) =>
        /\ heap[last[t].out] = last[t].wout
        /\ heap[last[t].err] = last[t].werr
        /\ heap[RealOut] = last[t].real_out
        /\ heap[RealErr] = last[t].real_err

\* a body that wrote to both streams
C3_Witness ==
    \E t \in Threads :
        /\ JustExited(t)
        /\ last[t].wout = "b"
        /\ last[t].werr = "a"
        /\ heap[last[t].out] = "b"
        /\ heap[last[t].err] = "a"

\* C4: when the body of a scope raised, the code around the with statement
\* observes that same error, and when it does sys.stdout and sys.stderr are
\* already the objects installed before the scope was entered.
C4_Propagates ==
    \A t \in Threads : (JustExited(t) /\ last[t].raised # NoErr) =>
        /\ pc[t] = "except"
        /\ exc[t] = last[t].raised
        /\ sys_stdout = last[t].pre_out
        /\ sys_stderr = last[t].pre_err

\* the error E2 reaches the code outside every scope, the real streams installed
C4_Witness ==
    \E t \in Threads :
        /\ pc[t] = "except"
        /\ Depth(t) = 0
        /\ last[t].raised = "E2"
        /\ exc[t] = "E2"
        /\ sys_stdout = RealOut
        /\ sys_stderr = RealErr

\* a enters, b enters, a exits, b exits: the scopes overlap
Overlapped(a, b) ==
    << <<a, "enter">>, <<a, "entered">>, <<b, "enter">>, <<b, "entered">>,
       <<a, "exit">>, <<a, "exited">>, <<b, "exit">>, <<b, "exited">> >>

\* a enters, b enters, b exits, a exits: b's scope lies inside a's
Nested(a, b) ==
    << <<a, "enter">>, <<a, "entered">>, <<b, "enter">>, <<b, "entered">>,
       <<b, "exit">>, <<b, "exited">>, <<a, "exit">>, <<a, "exited">> >>

\* C10: two threads, one scope each.  After enter a, enter b, exit a, exit b
\* both scopes have exited and a's buffers, not the original streams, are
\* installed; after enter a, enter b, exit b, exit a the originals are back.
C10_Threads ==
    \A a, b \in Threads : a # b =>
        /\ log = Overlapped(a, b) =>
                /\ sys_stdout = last[a].new_out /\ sys_stdout # RealOut
                /\ sys_stderr = last[a].new_err /\ sys_stderr # RealErr
        /\ log = Nested(a, b) =>
                /\ sys_stdout = RealOut
                /\ sys_stderr = RealErr

\* the overlapping interleaving, at its end
C10_Witness ==
    /\ log = Overlapped("A", "B")
    /\ \A t \in Threads : Depth(t) = 0
    /\ sys_stdout = last["A"].new_out
    /\ sys_stdout # RealOut

(***************************************************************************)
(* Claims about assert_operator and its bindings                           *)
(***************************************************************************)
\* C2: assert_operator(a, b, msg, op) fails if and only if op(a, b) is
\* false; when op(a, b) is true it returns without raising.
C2_FailsIff ==
    call.fn = "assert_operator" =>
        /\ outcome.status # "ok" <=> ~ApplyOp(call.op, call.args[1], call.args[2])
        /\ ApplyOp(call.op, call.args[1], call.args[2]) => outcome = Passed

\* an ordering that holds one way round only: 1 >= 2 fails
C2_Witness ==
    /\ call.fn = "assert_operator"
    /\ call.op = "ge"
    /\ call.args = <<IntVal(1), IntVal(2)>>
    /\ outcome.status = "AssertionError"

\* C5: when assert_operator(value1, value2, msg, op) fails with an
\* AssertionError, the message is msg with {0} replaced by str(value2) and
\* {1} by str(value1); assert_greater(3, 5) fails with the message "5 > 3".
C5_Message ==
    /\ (call.fn = "assert_operator" /\ outcome.status = "AssertionError") =>
            outcome.message = Format(call.msg, <<Str(call.args[2]), Str(call.args[1])>>)
    /\ (call.fn = "assert_greater" /\ call.args = <<IntVal(3), IntVal(5)>>) =>
            outcome = Failed("AssertionError", "5 > 3")

C5_Witness ==
    /\ call.fn = "assert_greater"
    /\ call.args = <<IntVal(3), IntVal(5)>>
    /\ outcome.message = "5 > 3"

\* what the claim gives as the relation each two-argument binding asserts
C6_Relation(fn, a, b) ==
    CASE fn = "assert_greater_equal" -> a.v >= b.v
      [] fn = "assert_greater"       -> a.v > b.v
      [] fn = "assert_less_equal"    -> a.v <= b.v
      [] fn = "assert_less"          -> a.v < b.v
      [] fn = "assert_not_equal"     -> a.v # b.v

\* assert_operator with the operator and the template the binding fixes
C6_Generic(fn, a, b) ==
    CASE fn = "assert_greater_equal" -> assert_operator(a, b, T_ge, "ge")
      [] fn = "assert_greater"       -> assert_operator(a, b, T_gt, "gt")
      [] fn = "assert_less_equal"    -> assert_operator(a, b, T_le, "le")
      [] fn = "assert_less"          -> assert_operator(a, b, T_lt, "lt")
      [] fn = "assert_not_equal"     -> assert_operator(a, b, T_empty, "ne")

\* C6: each binding does what assert_operator does with its operator and
\* template: the five comparisons fail exactly when their relation is false;
\* assert_true(v) fails exactly when v == True is false, with the message
\* "False is not true"; assert_false(v) exactly when v == False is false,
\* with the message "True is not false".
C6_Bindings ==
    /\ (call.fn \in Bindings \ {"assert_true", "assert_false"} /\ Len(call.args) = 2) =>
            /\ outcome.status = "ok" <=> C6_Relation(call.fn, call.args[1], call.args[2])
            /\ outcome.status \in {"ok", "AssertionError"}
            /\ outcome = C6_Generic(call.fn, call.args[1], call.args[2])
    /\ (call.fn = "assert_true" /\ Len(call.args) = 1) =>
            outcome = IF call.args[1].v = 1 THEN Passed
                      ELSE Failed("AssertionError", "False is not true")
    /\ (call.fn = "assert_false" /\ Len(call.args) = 1) =>
            outcome = IF call.args[1].v = 0 THEN Passed
                      ELSE Failed("AssertionError", "True is not false")

C6_Witness ==
    /\ call.fn = "assert_true"
    /\ call.args = <<False>>
    /\ outcome = Failed("AssertionError", "False is not true")

(***************************************************************************)
(* Claims about assert_arrays_equal                                        *)
(***************************************************************************)
Called == aresult # NotCalled
Common == 1 .. Min(Len(arrays1), Len(arrays2))
Mismatches == {k \in Common : arrays1[k] # arrays2[k]}

C9_ShorterLength ==
    Called =>
        /\ Mismatches = {} => aresult.status = "ok"
        /\ (arrays1 = <<>> \/ arrays2 = <<>>) => aresult.status = "ok"
        /\ aresult = assert_arrays_equal(SubSeq(arrays1, 1, Min(Len(arrays1), Len(arrays2))),
                                         SubSeq(arrays2, 1, Min(Len(arrays1), Len(arrays2))))

\* the second sequence has one array more, and the call succeeds
C9_Witness ==
    /\ Called
    /\ Len(arrays1) = 1
    /\ Len(arrays2) = 2
    /\ arrays1[1] = arrays2[1]
    /\ aresult.status = "ok"

(***************************************************************************)
(* Claims about setup_test                                                 *)
(***************************************************************************)
\* C8: whatever the numpy and scipy versions, after a second (and any
\* later) call of setup_test the legacy print mode and the list of warning
\* filters are what they were after the first call.
C8_Idempotent ==
    ncalls >= 2 => <<printoptions, filters>> = config1

\* both branches ran twice, on a list that already held the entry
C8_Witness ==
    /\ ncalls = 2
    /\ VersionGE(np_version, V_1_15)
    /\ VersionLE(scipy_version, V_1_1_0)
    /\ printoptions.legacy = "1.13"
    /\ filters = <<F_default, F_ignore>>
    /\ config1 = <<printoptions, filters>>

=============================================================================
